---- MODULE Spec2Model ----
(***************************************************************************)
(* A state-machine model of the go-batch pipeline: the orchestrator        *)
(* (batch/batch.go: Batch) and the distributor (consumer.go:                *)
(* BatchConsumer).  The assembler (BatchProducer), the Semaphore and        *)
(* GetBatchSupply are used by these files but defined elsewhere; they are   *)
(* modelled from their documented contract.                                 *)
(*                                                                          *)
(* Every goroutine is a process of the model; a channel is a sequence (or   *)
(* a counter when its messages carry no data) with its capacity; an         *)
(* unbuffered channel is a rendezvous: one action moves the sender and the  *)
(* receiver together.                                                       *)
(***************************************************************************)
EXTENDS Naturals, Sequences, FiniteSets

\* ---------------------------------------------------------------- bounds
\* Submissions a caller makes on b.Item.
MaxSubmit == 2
\* Largest MaxItems option the model configures (p.MaxItems ranges over 1..MaxItemsLimit).
MaxItemsLimit == 2
\* Receives from the closed ingestion channel that the model follows.
MaxNilReads == 1
\* Concurrent callers of Close().
NumClosers == 2
\* Pipelines constructed in one process.
MaxInstances == 2
\* Stop() calls the application makes itself.
MaxStops == 3
\* Size of the worker pool (the source's default is 10).
DefaultWorkerPool == 2

\* ------------------------------------------------------- program constants
ConsumerChCap == 1
QuitCap == 1
TerminateChCap == 1
ClientSupplyChCap == 1
BatchSupplyChCap == 100

Workers == 1..DefaultWorkerPool
Closers == 1..NumClosers

\* What the embedding application and the operating system do in one run:
\* how many items are submitted, how many callers call Close(), whether a
\* termination signal arrives, how many pipelines are constructed, and how
\* many receives from the closed ingestion channel are followed.
Scenarios ==
    { [submits |-> MaxSubmit, closers |-> 1, signals |-> 0, instances |-> 1,
       nilReads |-> 0, stops |-> 0, shutdowns |-> 0],
      [submits |-> 1, closers |-> 1, signals |-> 0, instances |-> 1,
       nilReads |-> MaxNilReads, stops |-> 0, shutdowns |-> 0],
      [submits |-> 1, closers |-> NumClosers, signals |-> 0, instances |-> 1,
       nilReads |-> 0, stops |-> 0, shutdowns |-> 0],
      [submits |-> MaxSubmit, closers |-> 0, signals |-> 1, instances |-> 1,
       nilReads |-> 0, stops |-> 0, shutdowns |-> 0],
      [submits |-> 1, closers |-> 1, signals |-> 1, instances |-> 1,
       nilReads |-> 0, stops |-> 0, shutdowns |-> 0],
      [submits |-> 1, closers |-> 0, signals |-> 0, instances |-> MaxInstances,
       nilReads |-> 0, stops |-> 0, shutdowns |-> 0],
      [submits |-> 1, closers |-> 0, signals |-> 0, instances |-> 1,
       nilReads |-> 0, stops |-> MaxStops, shutdowns |-> 0],
      [submits |-> 1, closers |-> 0, signals |-> 1, instances |-> 1,
       nilReads |-> 0, stops |-> 0, shutdowns |-> 1] }

VARIABLES
    env,            \* the scenario of this run (never changes)
    proc,           \* "created", "running", "exited" (os.Exit), "panicked"
    panicCause,     \* the runtime error that crashed the process, or "none"
    MaxItems,       \* p.MaxItems, the resolved option
    instances,      \* number of NewBatch() calls made in this process
    stopCalls,      \* number of Stop() calls the application made itself
    flushArg,       \* the batch bound to WatchProducer's call of ConsumerFunc
    checkArg,       \* per closer: the batch bound to CheckRemainingItems' call of ConsumerFunc
    shutdownPc,     \* the caller of Shutdown(): "idle", "wait", "returned"
    \* ---- orchestrator (batch.go)
    submitted,      \* submissions accepted on b.Item
    itemClosed,     \* close(b.Item) has happened
    Id,             \* b.Id
    nilReads,       \* receives from b.Item after it was closed
    fwd,            \* the forwarding goroutines of ReadItems
    closePc,        \* position of each Close() caller
    checkPc,        \* position of each CheckRemainingItems goroutine
    closeAt,        \* ghost: what had been submitted/watched when Close() was first called
    sem,            \* permits of b.Semaphore taken
    stopProducers,  \* StopProducer goroutines blocked on Producer.Quit
    stopConsumers,  \* StopConsumer goroutines blocked on Consumer.Quit
    \* ---- assembler (BatchProducer) and the package-level slice
    items,          \* the package-level variable `items`
    producerPc,     \* position of WatchProducer
    watched,        \* ghost: the tagged items received on Producer.Watcher, in order
    \* ---- distributor (consumer.go)
    ConsumerCh,     \* chan []BatchItems, capacity 1
    BatchWorkerCh,  \* chan []BatchItems, capacity DefaultWorkerPool
    workerChClosed, \* close(c.BatchWorkerCh) has happened
    Quit,           \* c.Quit: number of buffered values
    ctxDone,        \* cancel() has been called
    TerminateCh,    \* c.TerminateCh: number of buffered signals
    startPc,        \* position of StartConsumer
    consumerPc,     \* position of ConsumerBatch
    consumerHold,   \* the batch ConsumerBatch is sending to BatchWorkerCh
    workerPc,       \* position of each WorkerFunc
    workerBatch,    \* the batch a worker took from BatchWorkerCh
    workerSlot,     \* the response channel a worker received from BatchSupplyCh
    Workerline,     \* the WaitGroup counter
    \* ---- supply
    supplyNew,      \* GetBatchSupply goroutines that have not advertised yet
    BatchSupplyCh,  \* chan chan []BatchItems: the advertised response channels
    supplyHold,     \* batches held by GetBatchSupply goroutines, to send to the client
    ClientSupplyCh, \* chan []BatchItems, capacity 1
    delivered,      \* batches the client received, in order
    \* ---- ghosts: a record of what happened, read by no step of the program
    closedWith,     \* how BatchWorkerCh was closed and what it buffered then
    claimed,        \* <<worker, batch>> in the order the workers took batches
    handed          \* <<worker, batch>> in the order batches went into response channels

orch == <<submitted, itemClosed, Id, nilReads, fwd, closePc, checkPc,
          closeAt, sem, stopProducers, stopConsumers>>
asm == <<items, producerPc, watched>>
dist == <<ConsumerCh, BatchWorkerCh, workerChClosed, Quit, ctxDone, TerminateCh,
          startPc, consumerPc, consumerHold, workerPc, workerBatch, workerSlot,
          Workerline>>
sup == <<supplyNew, BatchSupplyCh, supplyHold, ClientSupplyCh, delivered>>
calls == <<flushArg, checkArg, shutdownPc>>
life == <<env, proc, panicCause, MaxItems, instances, stopCalls, calls>>
ghost == <<closedWith, claimed, handed>>
vars == <<life, orch, asm, dist, sup, ghost>>

\* The process is alive: no os.Exit and no panic has ended it.
Running == proc = "running"

\* ------------------------------------------------------------ construction
\* NewBatchConsumer / NewBatchSupply: the channels are empty, nothing runs.
NewBatchConsumer ==
    /\ ConsumerCh = <<>>
    /\ BatchWorkerCh = <<>>
    /\ workerChClosed = FALSE
    /\ Quit = 0
    /\ TerminateCh = 0
    /\ ctxDone = FALSE
    /\ startPc = "created"
    /\ consumerPc = "created"
    /\ consumerHold = <<>>
    /\ workerPc = [w \in Workers |-> "created"]
    /\ workerBatch = [w \in Workers |-> <<>>]
    /\ workerSlot = [w \in Workers |-> 0]
    /\ Workerline = 0

NewBatchSupply ==
    /\ supplyNew = 0
    /\ BatchSupplyCh = <<>>
    /\ supplyHold = {}
    /\ ClientSupplyCh = <<>>
    /\ delivered = <<>>

\* NewBatch: the state after constructing the (first) pipeline.
Init ==
    /\ env \in Scenarios
    /\ proc = "created"
    /\ panicCause = "none"
    /\ MaxItems \in 1..MaxItemsLimit
    /\ instances = 1
    /\ submitted = 0
    /\ itemClosed = FALSE
    /\ Id = 0
    /\ nilReads = 0
    /\ fwd = {}
    /\ closePc = [c \in Closers |-> "idle"]
    /\ checkPc = [c \in Closers |-> "none"]
    /\ closeAt = <<>>
    /\ sem = 0
    /\ stopProducers = 0
    /\ stopConsumers = 0
    /\ stopCalls = 0
    /\ flushArg = <<>>
    /\ checkArg = [c \in Closers |-> <<>>]
    /\ shutdownPc = "idle"
    /\ items = <<>>
    /\ producerPc = "created"
    /\ watched = <<>>
    /\ NewBatchConsumer
    /\ NewBatchSupply
    /\ closedWith = [how |-> "open", batches |-> <<>>]
    /\ claimed = <<>>
    /\ handed = <<>>

\* ------------------------------------------------------------------ start
\* StartBachProcessing: go WatchProducer(), go StartConsumer(), go ReadItems().
StartBachProcessing ==
    /\ proc = "created"
    /\ proc' = "running"
    /\ producerPc' = "select"
    /\ startPc' = "start"
    /\ UNCHANGED <<env, stopCalls, calls, panicCause, MaxItems, instances, orch, items, watched, sup>>
    /\ UNCHANGED <<ConsumerCh, BatchWorkerCh, workerChClosed, Quit, ctxDone,
                   TerminateCh, consumerPc, consumerHold, workerPc, workerBatch,
                   workerSlot, Workerline>>
    /\ UNCHANGED ghost

\* StartConsumer up to its receive on TerminateCh: go ConsumerBatch(ctx),
\* Workerline.Add(DefaultWorkerPool), go WorkerFunc(i) for every i.
StartConsumer ==
    /\ Running
    /\ startPc = "start"
    /\ startPc' = "wait"
    /\ consumerPc' = "select"
    /\ Workerline' = Workerline + DefaultWorkerPool
    /\ workerPc' = [w \in Workers |-> "range"]
    /\ UNCHANGED <<life, orch, asm, sup>>
    /\ UNCHANGED <<ConsumerCh, BatchWorkerCh, workerChClosed, Quit, ctxDone,
                   TerminateCh, consumerHold, workerBatch, workerSlot>>
    /\ UNCHANGED ghost

\* -------------------------------------------------------------- ingestion
\* A forwarding goroutine as ReadItems spawns it: it has not read b.Id yet.
\* Seq is a ghost: the number of the receive that spawned it.
Forwarder(seq, item) == [Seq |-> seq, Item |-> item, Id |-> 0]

\* ReadItems, the receive branch with a caller's send on the unbuffered b.Item:
\* b.Id++, then the goroutine is spawned.  The Sleep that follows changes no
\* state and synchronises with nothing, so the loop is back at its receive.
ReadItems ==
    /\ Running
    /\ ~itemClosed
    /\ submitted < env.submits
    /\ submitted' = submitted + 1
    /\ Id' = Id + 1
    /\ fwd' = fwd \cup {Forwarder(Id + 1, submitted + 1)}
    /\ UNCHANGED <<life, asm, dist, sup>>
    /\ UNCHANGED <<itemClosed, nilReads, closePc, checkPc, closeAt, sem,
                   stopProducers, stopConsumers>>
    /\ UNCHANGED ghost

\* A caller's send on b.Item after close(b.Item): the Go runtime panics.
SubmitClosed ==
    /\ Running
    /\ itemClosed
    /\ submitted < env.submits
    /\ proc' = "panicked"
    /\ panicCause' = "send on closed channel"
    /\ UNCHANGED <<env, stopCalls, calls, MaxItems, instances, orch, asm, dist, sup>>
    /\ UNCHANGED ghost

\* ReadItems after close(b.Item): the receive yields the zero value (nil, here
\* item 0) at once, and the loop treats it as an item.
ReadItemsClosed ==
    /\ Running
    /\ itemClosed
    /\ nilReads < env.nilReads
    /\ nilReads' = nilReads + 1
    /\ Id' = Id + 1
    /\ fwd' = fwd \cup {Forwarder(Id + 1, 0)}
    /\ UNCHANGED <<life, asm, dist, sup>>
    /\ UNCHANGED <<submitted, itemClosed, closePc, checkPc, closeAt, sem,
                   stopProducers, stopConsumers>>
    /\ UNCHANGED ghost

\* The value of b.Id a forwarding goroutine reads when it builds its
\* BatchItems: the closure holds b, not a copy of the counter, so it is the
\* counter's value at the time the goroutine runs.
ForwardId(g) == Id

\* The goroutine evaluates &BatchItems{Id: b.Id, Item: item}.
ForwardBuild(g) ==
    /\ Running
    /\ g \in fwd
    /\ g.Id = 0
    /\ fwd' = (fwd \ {g}) \cup {[g EXCEPT !.Id = ForwardId(g)]}
    /\ UNCHANGED <<life, asm, dist, sup>>
    /\ UNCHANGED <<submitted, itemClosed, Id, nilReads, closePc, checkPc, closeAt,
                   sem, stopProducers, stopConsumers>>
    /\ UNCHANGED ghost

\* ------------------------------------------------ distributor: the hand-off
\* ConsumerFunc: c.ConsumerCh <- items.  The send blocks while the buffer is full.
ConsumerFunc(batch) ==
    /\ Len(ConsumerCh) < ConsumerChCap
    /\ ConsumerCh' = Append(ConsumerCh, batch)

\* -------------------------------------------------------------- assembler
\* The BatchItems a forwarding goroutine sends on Producer.Watcher.
BatchItems(g) == [Id |-> g.Id, Item |-> g.Item, Seq |-> g.Seq]

\* The count trigger: the window has reached MaxItems.
BatchReady(window) == Len(window) >= MaxItems

\* WatchProducer, the receive on the unbuffered Producer.Watcher, with the
\* send of forwarding goroutine g: the item joins the window; a full window
\* is flushed next.
WatchProducer(g) ==
    /\ Running
    /\ producerPc = "select"
    /\ g \in fwd
    /\ g.Id # 0
    /\ fwd' = fwd \ {g}
    /\ items' = Append(items, BatchItems(g))
    /\ watched' = Append(watched, BatchItems(g))
    /\ producerPc' = IF BatchReady(items') THEN "flush" ELSE "select"
    /\ UNCHANGED <<life, dist, sup>>
    /\ UNCHANGED <<submitted, itemClosed, Id, nilReads, closePc, checkPc, closeAt,
                   sem, stopProducers, stopConsumers>>
    /\ UNCHANGED ghost

\* WatchProducer, the time trigger: MaxWait has passed since the first item
\* of the window; an empty window arms no timer.
ProducerMaxWait ==
    /\ Running
    /\ producerPc = "select"
    /\ items # <<>>
    /\ producerPc' = "flush"
    /\ UNCHANGED <<life, orch, items, watched, dist, sup>>
    /\ UNCHANGED ghost

\* WatchProducer, the receive on Producer.Quit with the send of one
\* StopProducer goroutine: a partial window is flushed, then the loop ends.
ProducerQuit ==
    /\ Running
    /\ producerPc = "select"
    /\ stopProducers > 0
    /\ stopProducers' = stopProducers - 1
    /\ producerPc' = IF items # <<>> THEN "lastflush" ELSE "done"
    /\ UNCHANGED <<life, items, watched, dist, sup>>
    /\ UNCHANGED <<submitted, itemClosed, Id, nilReads, fwd, closePc, checkPc,
                   closeAt, sem, stopConsumers>>
    /\ UNCHANGED ghost

\* releaseBatch up to its call of the flush callback: the window is sealed
\* into the batch the call is made with, and a new, empty window opens.  A
\* window that was drained meanwhile makes no call.
ReleaseBatch ==
    /\ Running
    /\ producerPc \in {"flush", "lastflush"}
    /\ IF items # <<>>
       THEN /\ flushArg' = items
            /\ producerPc' = IF producerPc = "flush" THEN "send" ELSE "lastsend"
       ELSE /\ flushArg' = flushArg
            /\ producerPc' = IF producerPc = "flush" THEN "select" ELSE "done"
    /\ items' = <<>>
    /\ UNCHANGED <<env, proc, panicCause, MaxItems, instances, stopCalls, checkArg,
                   shutdownPc, orch, watched, dist, sup, ghost>>

\* The assembler inside ConsumerFunc: the send of the bound batch on
\* ConsumerCh, blocking while the buffer is full; then the call returns.
ReleaseBatchSend ==
    /\ Running
    /\ producerPc \in {"send", "lastsend"}
    /\ ConsumerFunc(flushArg)
    /\ flushArg' = <<>>
    /\ producerPc' = IF producerPc = "send" THEN "select" ELSE "done"
    /\ UNCHANGED <<env, proc, panicCause, MaxItems, instances, stopCalls, checkArg,
                   shutdownPc, orch, items, watched, sup, ghost>>
    /\ UNCHANGED <<BatchWorkerCh, workerChClosed, Quit, ctxDone, TerminateCh,
                   startPc, consumerPc, consumerHold, workerPc, workerBatch,
                   workerSlot, Workerline>>

\* CheckRemainingItems(done) up to its call of the flush callback: whatever
\* remains in the window is sealed into the batch the call is made with.
CheckRemainingItems(c) ==
    /\ Running
    /\ checkPc[c] = "drain"
    /\ IF items # <<>>
       THEN /\ checkArg' = [checkArg EXCEPT ![c] = items]
            /\ checkPc' = [checkPc EXCEPT ![c] = "send"]
       ELSE /\ checkArg' = checkArg
            /\ checkPc' = [checkPc EXCEPT ![c] = "signal"]
    /\ items' = <<>>
    /\ UNCHANGED <<env, proc, panicCause, MaxItems, instances, stopCalls, flushArg,
                   shutdownPc, producerPc, watched, dist, sup, ghost>>
    /\ UNCHANGED <<submitted, itemClosed, Id, nilReads, fwd, closePc, closeAt,
                   sem, stopProducers, stopConsumers>>

\* CheckRemainingItems inside ConsumerFunc: the send of the bound batch on
\* ConsumerCh, blocking while the buffer is full; then the call returns.
CheckRemainingSend(c) ==
    /\ Running
    /\ checkPc[c] = "send"
    /\ ConsumerFunc(checkArg[c])
    /\ checkArg' = [checkArg EXCEPT ![c] = <<>>]
    /\ checkPc' = [checkPc EXCEPT ![c] = "signal"]
    /\ UNCHANGED <<env, proc, panicCause, MaxItems, instances, stopCalls, flushArg,
                   shutdownPc, asm, sup, ghost>>
    /\ UNCHANGED <<submitted, itemClosed, Id, nilReads, fwd, closePc, closeAt,
                   sem, stopProducers, stopConsumers>>
    /\ UNCHANGED <<BatchWorkerCh, workerChClosed, Quit, ctxDone, TerminateCh,
                   startPc, consumerPc, consumerHold, workerPc, workerBatch,
                   workerSlot, Workerline>>

\* ------------------------------------------------------------- semaphore
\* NewSemaphore(int(p.MaxItems)): the number of permits.
SemaphoreCap == MaxItems

\* Semaphore.Lock: takes a permit, blocks while none is free.
Lock ==
    /\ sem < SemaphoreCap
    /\ sem' = sem + 1

\* Semaphore.Unlock: returns a permit.
Unlock == sem' = sem - 1

\* ------------------------------------------------------ orchestrator: stop
\* A caller enters Close(): done is made and CheckRemainingItems(done) is
\* spawned; the caller waits in the select on done.
Close(c) ==
    /\ Running
    /\ c <= env.closers
    /\ closePc[c] = "idle"
    /\ closePc' = [closePc EXCEPT ![c] = "select"]
    /\ checkPc' = [checkPc EXCEPT ![c] = "drain"]
    /\ closeAt' = IF closeAt = <<>> THEN <<submitted, Len(watched)>> ELSE closeAt
    /\ UNCHANGED <<life, asm, dist, sup>>
    /\ UNCHANGED <<submitted, itemClosed, Id, nilReads, fwd, sem, stopProducers,
                   stopConsumers>>
    /\ UNCHANGED ghost

\* Close(), case <-done, with CheckRemainingItems' send on the unbuffered done.
CloseDone(c) ==
    /\ Running
    /\ closePc[c] = "select"
    /\ checkPc[c] = "signal"
    /\ closePc' = [closePc EXCEPT ![c] = "lock"]
    /\ checkPc' = [checkPc EXCEPT ![c] = "returned"]
    /\ UNCHANGED <<life, asm, dist, sup>>
    /\ UNCHANGED <<submitted, itemClosed, Id, nilReads, fwd, closeAt, sem,
                   stopProducers, stopConsumers>>
    /\ UNCHANGED ghost

\* Close(): b.Semaphore.Lock().
CloseLock(c) ==
    /\ Running
    /\ closePc[c] = "lock"
    /\ Lock
    /\ closePc' = [closePc EXCEPT ![c] = "stop"]
    /\ UNCHANGED <<life, asm, dist, sup>>
    /\ UNCHANGED <<submitted, itemClosed, Id, nilReads, fwd, checkPc, closeAt,
                   stopProducers, stopConsumers>>
    /\ UNCHANGED ghost

\* Stop: go b.StopProducer(); go b.StopConsumer().  Each goroutine is a
\* sender waiting on its Quit channel.
Stop ==
    /\ stopProducers' = stopProducers + 1
    /\ stopConsumers' = stopConsumers + 1

\* Close(): b.Stop().
\* The application calls Stop() itself.
CallStop ==
    /\ Running
    /\ stopCalls < env.stops
    /\ stopCalls' = stopCalls + 1
    /\ Stop
    /\ UNCHANGED <<env, calls, proc, panicCause, MaxItems, instances, asm, dist, sup, ghost>>
    /\ UNCHANGED <<submitted, itemClosed, Id, nilReads, fwd, closePc, checkPc,
                   closeAt, sem>>

CloseStop(c) ==
    /\ Running
    /\ closePc[c] = "stop"
    /\ Stop
    /\ closePc' = [closePc EXCEPT ![c] = "close"]
    /\ UNCHANGED <<life, asm, dist, sup>>
    /\ UNCHANGED <<submitted, itemClosed, Id, nilReads, fwd, checkPc, closeAt, sem>>
    /\ UNCHANGED ghost

\* Close(): close(b.Item).  Closing a closed channel panics.
CloseItem(c) ==
    /\ Running
    /\ closePc[c] = "close"
    /\ IF itemClosed
       THEN /\ proc' = "panicked"
            /\ panicCause' = "close of closed channel"
            /\ UNCHANGED <<itemClosed, closePc>>
       ELSE /\ itemClosed' = TRUE
            /\ closePc' = [closePc EXCEPT ![c] = "unlock"]
            /\ UNCHANGED <<proc, panicCause>>
    /\ UNCHANGED <<env, stopCalls, calls, MaxItems, instances, asm, dist, sup>>
    /\ UNCHANGED <<submitted, Id, nilReads, fwd, checkPc, closeAt, sem,
                   stopProducers, stopConsumers>>
    /\ UNCHANGED ghost

\* Where Close() goes after b.Semaphore.Unlock(): the select is the body of
\* a for loop with no break and no return, so the caller is back at the select.
AfterUnlock == "select"

\* Close(): b.Semaphore.Unlock(), and the loop goes round.
CloseUnlock(c) ==
    /\ Running
    /\ closePc[c] = "unlock"
    /\ Unlock
    /\ closePc' = [closePc EXCEPT ![c] = AfterUnlock]
    /\ UNCHANGED <<life, asm, dist, sup>>
    /\ UNCHANGED <<submitted, itemClosed, Id, nilReads, fwd, checkPc, closeAt,
                   stopProducers, stopConsumers>>
    /\ UNCHANGED ghost

\* StopConsumer: b.Consumer.Quit <- true, a send on a channel of capacity 1.
StopConsumer ==
    /\ Running
    /\ stopConsumers > 0
    /\ Quit < QuitCap
    /\ Quit' = Quit + 1
    /\ stopConsumers' = stopConsumers - 1
    /\ UNCHANGED <<life, asm, sup>>
    /\ UNCHANGED <<submitted, itemClosed, Id, nilReads, fwd, closePc, checkPc,
                   closeAt, sem, stopProducers>>
    /\ UNCHANGED <<ConsumerCh, BatchWorkerCh, workerChClosed, ctxDone, TerminateCh,
                   startPc, consumerPc, consumerHold, workerPc, workerBatch,
                   workerSlot, Workerline>>
    /\ UNCHANGED ghost

\* NewBatch, called again in the same process for another pipeline: line 39
\* assigns the package-level `items`.  The other effects are on the new
\* instance's own fields.
NewBatch ==
    /\ proc \in {"created", "running"}
    /\ instances < env.instances
    /\ instances' = instances + 1
    /\ items' = <<>>
    /\ UNCHANGED <<env, stopCalls, calls, proc, panicCause, MaxItems, orch, producerPc, watched, dist, sup>>
    /\ UNCHANGED ghost

\* ------------------------------------------------ distributor: the routing loop
orchFrame == UNCHANGED <<life, orch, asm>>

\* ConsumerBatch, case batchItems := <-c.ConsumerCh.
ConsumerBatchReceive ==
    /\ Running
    /\ consumerPc = "select"
    /\ ConsumerCh # <<>>
    /\ consumerHold' = Head(ConsumerCh)
    /\ ConsumerCh' = Tail(ConsumerCh)
    /\ consumerPc' = "send"
    /\ orchFrame
    /\ UNCHANGED <<sup, BatchWorkerCh, workerChClosed, Quit, ctxDone, TerminateCh,
                   startPc, workerPc, workerBatch, workerSlot, Workerline>>
    /\ UNCHANGED ghost

\* ConsumerBatch: c.BatchWorkerCh <- batchItems, blocking while the buffer is
\* full.  A send on a closed channel panics.
ConsumerBatchSend ==
    /\ Running
    /\ consumerPc = "send"
    /\ IF workerChClosed
       THEN /\ proc' = "panicked"
            /\ panicCause' = "send on closed channel: BatchWorkerCh"
            /\ UNCHANGED <<BatchWorkerCh, consumerHold, consumerPc>>
       ELSE /\ Len(BatchWorkerCh) < DefaultWorkerPool
            /\ BatchWorkerCh' = Append(BatchWorkerCh, consumerHold)
            /\ consumerHold' = <<>>
            /\ consumerPc' = "select"
            /\ UNCHANGED <<proc, panicCause>>
    /\ UNCHANGED <<env, stopCalls, calls, MaxItems, instances, orch, asm, sup, ghost>>
    /\ UNCHANGED <<ConsumerCh, workerChClosed, Quit, ctxDone, TerminateCh,
                   startPc, workerPc, workerBatch, workerSlot, Workerline>>

\* close(c.BatchWorkerCh): closing a closed channel panics.  The ghost
\* closedWith records the case that closed it and the batches buffered then.
CloseBatchWorkerCh(how) ==
    IF workerChClosed
    THEN /\ proc' = "panicked"
         /\ panicCause' = "close of closed channel: BatchWorkerCh"
         /\ UNCHANGED <<workerChClosed, closedWith>>
    ELSE /\ workerChClosed' = TRUE
         /\ closedWith' = [how |-> how, batches |-> BatchWorkerCh]
         /\ UNCHANGED <<proc, panicCause>>

\* A routing loop that stays in its select after closing the channel.
AfterCloseStays == "select"

\* Where ConsumerBatch goes after close(c.BatchWorkerCh): it returns.
AfterClose == "done"

\* ConsumerBatch, case <-ctx.Done(): close(c.BatchWorkerCh); return.
ConsumerBatchCancel ==
    /\ Running
    /\ consumerPc = "select"
    /\ ctxDone
    /\ CloseBatchWorkerCh("cancel")
    /\ consumerPc' = AfterClose
    /\ UNCHANGED <<env, stopCalls, calls, MaxItems, instances, orch, asm, claimed, handed>>
    /\ UNCHANGED <<sup, ConsumerCh, BatchWorkerCh, Quit, ctxDone, TerminateCh,
                   startPc, consumerHold, workerPc, workerBatch, workerSlot,
                   Workerline>>

\* ConsumerBatch, case <-c.Quit: close(c.BatchWorkerCh); return.
ConsumerBatchQuit ==
    /\ Running
    /\ consumerPc = "select"
    /\ Quit > 0
    /\ Quit' = Quit - 1
    /\ CloseBatchWorkerCh("quit")
    /\ consumerPc' = AfterClose
    /\ UNCHANGED <<env, stopCalls, calls, MaxItems, instances, orch, asm, claimed, handed>>
    /\ UNCHANGED <<sup, ConsumerCh, BatchWorkerCh, ctxDone, TerminateCh,
                   startPc, consumerHold, workerPc, workerBatch, workerSlot,
                   Workerline>>

\* ------------------------------------------------------------ the workers
\* A worker that would take the next batch before handing off the last.
AtRangeOrWaiting(w) == workerPc[w] \in {"range", "supply"}

\* A worker is at the head of its range loop: it handles one batch at a
\* time and comes back for the next only after the hand-off of the last.
AtRange(w) == workerPc[w] = "range"

\* A range loop that would end at the close, whatever is still buffered.
RangeEndsAtClose == workerChClosed

\* The range loop ends: the channel is closed and its buffer is drained.
RangeEnds == workerChClosed /\ BatchWorkerCh = <<>>

\* WorkerFunc, one round of `for batch := range c.BatchWorkerCh` with a batch
\* in the buffer: the worker takes it and spawns go c.GetBatchSupply().
WorkerFunc(w) ==
    /\ Running
    /\ AtRange(w)
    /\ BatchWorkerCh # <<>>
    /\ workerBatch' = [workerBatch EXCEPT ![w] = Head(BatchWorkerCh)]
    /\ claimed' = Append(claimed, <<w, Head(BatchWorkerCh)>>)
    /\ UNCHANGED <<closedWith, handed>>
    /\ BatchWorkerCh' = Tail(BatchWorkerCh)
    /\ supplyNew' = supplyNew + 1
    /\ workerPc' = [workerPc EXCEPT ![w] = "supply"]
    /\ orchFrame
    /\ UNCHANGED <<ConsumerCh, workerChClosed, Quit, ctxDone, TerminateCh, startPc,
                   consumerPc, consumerHold, workerSlot, Workerline>>
    /\ UNCHANGED <<BatchSupplyCh, supplyHold, ClientSupplyCh, delivered>>

\* WorkerFunc: the range ends when the channel is closed and drained;
\* the deferred Workerline.Done() runs.
WorkerExit(w) ==
    /\ Running
    /\ AtRange(w)
    /\ RangeEnds
    /\ workerPc' = [workerPc EXCEPT ![w] = "exited"]
    /\ Workerline' = Workerline - 1
    /\ orchFrame
    /\ UNCHANGED <<sup, ConsumerCh, BatchWorkerCh, workerChClosed, Quit, ctxDone,
                   TerminateCh, startPc, consumerPc, consumerHold, workerBatch,
                   workerSlot>>
    /\ UNCHANGED ghost

\* WorkerFunc: supplyCh := <-c.Supply.BatchSupplyCh.
WorkerSupply(w) ==
    /\ Running
    /\ workerPc[w] = "supply"
    /\ BatchSupplyCh # <<>>
    /\ workerSlot' = [workerSlot EXCEPT ![w] = Head(BatchSupplyCh)]
    /\ BatchSupplyCh' = Tail(BatchSupplyCh)
    /\ workerPc' = [workerPc EXCEPT ![w] = "deliver"]
    /\ orchFrame
    /\ UNCHANGED <<ConsumerCh, BatchWorkerCh, workerChClosed, Quit, ctxDone,
                   TerminateCh, startPc, consumerPc, consumerHold, workerBatch,
                   Workerline>>
    /\ UNCHANGED <<supplyNew, supplyHold, ClientSupplyCh, delivered>>
    /\ UNCHANGED ghost

\* WorkerFunc: supplyCh <- batch, with the receive of the GetBatchSupply
\* goroutine that owns the response channel; the worker is back at the range.
WorkerDeliver(w) ==
    /\ Running
    /\ workerPc[w] = "deliver"
    /\ supplyHold' = supplyHold \cup {workerBatch[w]}
    /\ handed' = Append(handed, <<w, workerBatch[w]>>)
    /\ UNCHANGED <<closedWith, claimed>>
    /\ workerBatch' = [workerBatch EXCEPT ![w] = <<>>]
    /\ workerSlot' = [workerSlot EXCEPT ![w] = 0]
    /\ workerPc' = [workerPc EXCEPT ![w] = "range"]
    /\ orchFrame
    /\ UNCHANGED <<ConsumerCh, BatchWorkerCh, workerChClosed, Quit, ctxDone,
                   TerminateCh, startPc, consumerPc, consumerHold, Workerline>>
    /\ UNCHANGED <<supplyNew, BatchSupplyCh, ClientSupplyCh, delivered>>

\* ------------------------------------------------------------- the supply
\* The response channels that are advertised or in a worker's hands.
SlotsInUse ==
    {BatchSupplyCh[i] : i \in 1..Len(BatchSupplyCh)}
        \cup {workerSlot[w] : w \in {v \in Workers : workerPc[v] = "deliver"}}

\* A fresh response channel (make(chan []BatchItems)): one no one else holds.
NewSlot == CHOOSE s \in 1..(DefaultWorkerPool + 1) : s \notin SlotsInUse

\* GetBatchSupply: a response channel is made and sent on BatchSupplyCh;
\* the goroutine then waits on it.
GetBatchSupply ==
    /\ Running
    /\ supplyNew > 0
    /\ Len(BatchSupplyCh) < BatchSupplyChCap
    /\ BatchSupplyCh' = Append(BatchSupplyCh, NewSlot)
    /\ supplyNew' = supplyNew - 1
    /\ orchFrame
    /\ UNCHANGED <<dist, supplyHold, ClientSupplyCh, delivered>>
    /\ UNCHANGED ghost

\* GetBatchSupply: the batch received on the response channel is sent on
\* ClientSupplyCh, blocking while its buffer is full.
SupplyClient(b) ==
    /\ Running
    /\ b \in supplyHold
    /\ Len(ClientSupplyCh) < ClientSupplyChCap
    /\ ClientSupplyCh' = Append(ClientSupplyCh, b)
    /\ supplyHold' = supplyHold \ {b}
    /\ orchFrame
    /\ UNCHANGED <<dist, supplyNew, BatchSupplyCh, delivered>>
    /\ UNCHANGED ghost

\* The client receives one batch from ClientSupplyCh.
ClientReceive ==
    /\ Running
    /\ ClientSupplyCh # <<>>
    /\ delivered' = Append(delivered, Head(ClientSupplyCh))
    /\ ClientSupplyCh' = Tail(ClientSupplyCh)
    /\ orchFrame
    /\ UNCHANGED <<dist, supplyNew, BatchSupplyCh, supplyHold>>
    /\ UNCHANGED ghost

\* signal.Notify(c.TerminateCh, ...) has been called, by StartConsumer or by
\* Shutdown: from then on, until the process ends, signals are relayed to
\* TerminateCh.
Notified == startPc \notin {"created", "start"} \/ shutdownPc # "idle"

\* ------------------------------------------------------------ termination
\* The operating system delivers SIGINT or SIGTERM; signal.Notify (line 99)
\* puts it on TerminateCh.
Signal ==
    /\ Running
    /\ env.signals > 0
    /\ Notified
    /\ TerminateCh < TerminateChCap
    /\ TerminateCh' = TerminateCh + 1
    /\ orchFrame
    /\ UNCHANGED <<sup, ConsumerCh, BatchWorkerCh, workerChClosed, Quit, ctxDone,
                   startPc, consumerPc, consumerHold, workerPc, workerBatch,
                   workerSlot, Workerline>>
    /\ UNCHANGED ghost

\* Where StartConsumer goes after cancel(): os.Exit(0) comes before
\* c.Workerline.Wait().
AfterCancel == "exit"

\* The application calls Shutdown(): signal.Notify registers TerminateCh and
\* the caller waits on it.
Shutdown ==
    /\ Running
    /\ env.shutdowns > 0
    /\ shutdownPc = "idle"
    /\ shutdownPc' = "wait"
    /\ UNCHANGED <<env, proc, panicCause, MaxItems, instances, stopCalls, flushArg,
                   checkArg, orch, asm, dist, sup, ghost>>

\* Shutdown(): the receive on TerminateCh.  The caller takes the signal and
\* returns; nothing is cancelled.
ShutdownReceive ==
    /\ Running
    /\ shutdownPc = "wait"
    /\ TerminateCh > 0
    /\ TerminateCh' = TerminateCh - 1
    /\ shutdownPc' = "returned"
    /\ UNCHANGED <<env, proc, panicCause, MaxItems, instances, stopCalls, flushArg,
                   checkArg, orch, asm, sup, ghost>>
    /\ UNCHANGED <<ConsumerCh, BatchWorkerCh, workerChClosed, Quit, ctxDone,
                   startPc, consumerPc, consumerHold, workerPc, workerBatch,
                   workerSlot, Workerline>>

\* StartConsumer: <-c.TerminateCh; cancel().
StartConsumerCancel ==
    /\ Running
    /\ startPc = "wait"
    /\ TerminateCh > 0
    /\ TerminateCh' = TerminateCh - 1
    /\ ctxDone' = TRUE
    /\ startPc' = AfterCancel
    /\ orchFrame
    /\ UNCHANGED <<sup, ConsumerCh, BatchWorkerCh, workerChClosed, Quit,
                   consumerPc, consumerHold, workerPc, workerBatch, workerSlot,
                   Workerline>>
    /\ UNCHANGED ghost

\* StartConsumer: os.Exit(0) ends the process and every goroutine with it.
StartConsumerExit ==
    /\ Running
    /\ startPc = "exit"
    /\ proc' = "exited"
    /\ startPc' = "exited"
    /\ UNCHANGED <<env, stopCalls, calls, panicCause, MaxItems, instances, orch, asm, sup>>
    /\ UNCHANGED <<ConsumerCh, BatchWorkerCh, workerChClosed, Quit, ctxDone,
                   TerminateCh, consumerPc, consumerHold, workerPc, workerBatch,
                   workerSlot, Workerline>>
    /\ UNCHANGED ghost

\* --------------------------------------------------------- specification
\* Every step of the program and of its environment.
Next ==
    \/ StartBachProcessing
    \/ StartConsumer
    \/ NewBatch
    \/ ReadItems
    \/ SubmitClosed
    \/ ReadItemsClosed
    \/ \E g \in fwd : ForwardBuild(g)
    \/ \E g \in fwd : WatchProducer(g)
    \/ ProducerMaxWait
    \/ ProducerQuit
    \/ ReleaseBatch
    \/ ReleaseBatchSend
    \/ \E c \in Closers : CheckRemainingItems(c)
    \/ \E c \in Closers : CheckRemainingSend(c)
    \/ \E c \in Closers : Close(c)
    \/ \E c \in Closers : CloseDone(c)
    \/ \E c \in Closers : CloseLock(c)
    \/ CallStop
    \/ \E c \in Closers : CloseStop(c)
    \/ \E c \in Closers : CloseItem(c)
    \/ \E c \in Closers : CloseUnlock(c)
    \/ StopConsumer
    \/ ConsumerBatchReceive
    \/ ConsumerBatchSend
    \/ ConsumerBatchCancel
    \/ ConsumerBatchQuit
    \/ \E w \in Workers : WorkerFunc(w)
    \/ \E w \in Workers : WorkerExit(w)
    \/ \E w \in Workers : WorkerSupply(w)
    \/ \E w \in Workers : WorkerDeliver(w)
    \/ GetBatchSupply
    \/ \E b \in supplyHold : SupplyClient(b)
    \/ ClientReceive
    \/ Signal
    \/ Shutdown
    \/ ShutdownReceive
    \/ StartConsumerCancel
    \/ StartConsumerExit

Spec == Init /\ [][Next]_vars

\* The Go scheduler runs every goroutine that can take a step, and a run of
\* the model is finite: under this fairness a behaviour ends only where no
\* step is possible.
FairSpec == Init /\ [][Next]_vars /\ WF_vars(Next)

\* ------------------------------------------------------------- vocabulary
\* The Ids of a batch, and the receives (ghost Seq) its items come from.
BatchIds(b) == {b[i].Id : i \in 1..Len(b)}
BatchSeqs(b) == {b[i].Seq : i \in 1..Len(b)}

\* How many of the delivered batches hold the item of receive number n.
TimesDelivered(n) ==
    Cardinality({i \in 1..Len(delivered) : n \in BatchSeqs(delivered[i])})

\* Callers of Close() between Semaphore.Lock() and Semaphore.Unlock().
InRegion == {c \in Closers : closePc[c] \in {"stop", "close", "unlock"}}

\* The distribution stage has ended: the routing loop has returned, every
\* worker has left its range loop, and the supply holds nothing to hand on.
DistributorStopped ==
    /\ consumerPc = "done"
    /\ \A w \in Workers : workerPc[w] = "exited"
    /\ supplyNew = 0
    /\ supplyHold = {}
    /\ ClientSupplyCh = <<>>

\* ------------------------------------------------------------------ claims
\* C1: no item loss under graceful shutdown.  When k items (k < MaxItems)
\* have been submitted and have all reached the assembler, Close() is then
\* called once and has drained and stopped the stages, nothing else is
\* submitted, no termination signal arrives, and the distribution stage has
\* ended, the delivered batches hold each of the k items exactly once.
C1_NoItemLoss ==
    ( /\ Running
      /\ instances = 1
      /\ nilReads = 0
      /\ ~ctxDone
      /\ submitted >= 1
      /\ submitted < MaxItems
      /\ closeAt = <<submitted, submitted>>
      /\ \E c \in Closers : checkPc[c] = "returned" /\ closePc[c] = "select"
      /\ \A c \in Closers : checkPc[c] \in {"returned", "none"}
      /\ DistributorStopped )
        => \A n \in 1..submitted : TimesDelivered(n) = 1

\* C2: at most one delivery per batch.  No batch is received twice by the
\* client and no two delivered batches hold the same Id.
C2_AtMostOneDelivery ==
    \A i, j \in 1..Len(delivered) :
        i # j => /\ delivered[i] # delivered[j]
                 /\ BatchIds(delivered[i]) \cap BatchIds(delivered[j]) = {}

\* C3: Close() is idempotent.  No call of Close() closes the ingestion
\* channel b.Item a second time (which panics).
C3_IdempotentClose == panicCause # "close of closed channel"

\* C4: Close() completes.  A caller that has been signalled done and has
\* stopped both stages (it is about to release the semaphore) eventually
\* returns from Close(), unless the process has ended meanwhile.
C4_CloseReturns ==
    \A c \in Closers :
        (closePc[c] = "unlock") ~> (closePc[c] = "returned" \/ ~Running)

\* C5: no duplicate or skipped Ids.  Once the forwarding goroutines of n
\* submissions have all sent their tagged item to the assembler, the Ids
\* sent are exactly 1..n, each once.
C5_IdsExactlyOneToN ==
    (nilReads = 0 /\ fwd = {} /\ Len(watched) = submitted)
        => /\ {watched[i].Id : i \in 1..Len(watched)} = 1..submitted
           /\ \A i, j \in 1..Len(watched) : i # j => watched[i].Id # watched[j].Id

\* C6: a submission after close(b.Item) is rejected cleanly.  It does not
\* crash the process with a send on the closed channel.
C6_SubmitAfterCloseRejected == panicCause # "send on closed channel"

\* C7: the region of Close() between Lock and Unlock is mutually exclusive:
\* at most one caller is inside it, whatever MaxItems is.
C7_RegionExclusive == Cardinality(InRegion) <= 1

\* C8: graceful shutdown on a termination signal.  When the process exits,
\* the workers have delivered every queued batch and have all exited.
C8_WorkersDoneBeforeExit ==
    proc = "exited"
        => /\ BatchWorkerCh = <<>>
           /\ \A w \in Workers : workerPc[w] = "exited"

\* C9: both stop paths terminate the worker pool.  After a cancellation or
\* a Quit signal has been delivered, BatchWorkerCh is eventually closed and
\* no worker is left waiting in its range loop (or a panic has crashed the
\* process meanwhile).
C9_StopPathsEndWorkers ==
    (ctxDone \/ Quit > 0)
        ~> \/ workerChClosed /\ \A w \in Workers : workerPc[w] # "range"
           \/ proc = "panicked"

\* C10: pipeline instances are independent.  Constructing another pipeline
\* leaves the pending items of the existing one unchanged.
C10_InstancesIndependent == [][instances' # instances => items' = items]_vars

\* C11: submission order is preserved.  The tagged items reach the
\* assembler in the order in which ReadItems received them from b.Item.
C11_SubmissionOrder ==
    \A i, j \in 1..Len(watched) : i < j => watched[i].Seq < watched[j].Seq

\* C12: after close(b.Item) the ingestion loop assigns no further Ids and
\* forwards nothing more: b.Id never exceeds the number of submissions and
\* every tagged item sent to the assembler carries a submitted item.
C12_NoIdsAfterClose ==
    /\ Id <= submitted
    /\ \A g \in fwd : g.Item # 0
    /\ \A i \in 1..Len(watched) : watched[i].Item # 0

\* C13: BatchWorkerCh is closed at most once and nothing is sent on it after
\* the close, whatever the order of cancellation, Quit signals and batches on
\* ConsumerCh: neither channel panic ever happens, a batch held for sending
\* implies an open channel, and the channel is closed only by a routing loop
\* that has returned.
C13_ClosedOnce ==
    /\ panicCause \notin {"close of closed channel: BatchWorkerCh",
                          "send on closed channel: BatchWorkerCh"}
    /\ consumerPc = "send" => ~workerChClosed
    /\ workerChClosed => consumerPc = "done"

\* C13 witness: the routing loop has closed the channel and returned while a
\* cancellation, a Quit signal and a batch on ConsumerCh are all still there.
C13_Witness ==
    /\ workerChClosed
    /\ consumerPc = "done"
    /\ ctxDone
    /\ Quit > 0
    /\ ConsumerCh # <<>>

\* The batches worker w took from BatchWorkerCh, and those it handed into a
\* response channel, each in order.
ClaimsOf(w) == SelectSeq(claimed, LAMBDA e : e[1] = w)
HandedBy(w) == SelectSeq(handed, LAMBDA e : e[1] = w)
TimesClaimed(b) == Cardinality({i \in 1..Len(claimed) : claimed[i][2] = b})
TimesQueued(b) == Cardinality({i \in 1..Len(BatchWorkerCh) : BatchWorkerCh[i] = b})

\* C14: closing the routing queue on Quit drains it.  Every batch buffered in
\* BatchWorkerCh at the close is either still buffered or was claimed by
\* exactly one worker; no worker exits while a batch is buffered; and a worker
\* that has exited handed every batch it claimed into a response channel.
C14_CloseDrains ==
    closedWith.how = "quit" =>
        /\ \A i \in 1..Len(closedWith.batches) :
              TimesQueued(closedWith.batches[i]) + TimesClaimed(closedWith.batches[i]) = 1
        /\ \A w \in Workers : workerPc[w] = "exited" =>
              /\ BatchWorkerCh = <<>>
              /\ HandedBy(w) = ClaimsOf(w)

\* C14 witness: the queue was closed on Quit with a batch buffered, a worker
\* claimed and handed that batch after the close, and that worker has exited.
C14_Witness ==
    /\ closedWith.how = "quit"
    /\ closedWith.batches # <<>>
    /\ \E w \in Workers :
          /\ workerPc[w] = "exited"
          /\ <<w, closedWith.batches[1]>> \in {handed[i] : i \in 1..Len(handed)}

\* A call of the flush callback is in progress: the assembler is inside
\* ConsumerFunc with a batch that is not yet on ConsumerCh, and the ingestion
\* loop has read nothing but submitted items.
FlushPending ==
    /\ producerPc \in {"send", "lastsend"}
    /\ flushArg # <<>>
    /\ nilReads = 0

\* C15: every call of the flush callback ConsumerFunc eventually returns,
\* also after the routing loop has quit or was cancelled (or the process has
\* ended meanwhile).
C15_ConsumerFuncReturns == FlushPending ~> (~FlushPending \/ ~Running)

\* C16: StopConsumer() always returns.  Whatever the number of stop requests,
\* a StopConsumer() call that is sending on Consumer.Quit eventually
\* completes its send (or the process has ended meanwhile).
C16_StopConsumerReturns == (stopConsumers > 0) ~> (stopConsumers = 0 \/ ~Running)

\* Position of an entry in the order of claims.
ClaimIndex(e) == CHOOSE i \in 1..Len(claimed) : claimed[i] = e

\* C17 as stated: batches are handed into response channels in the order in
\* which their workers claimed them from BatchWorkerCh, across all workers.
C17_ClaimOrder ==
    \A p, q \in 1..Len(handed) :
        p < q => ClaimIndex(handed[p]) < ClaimIndex(handed[q])

\* C17 amended: the order holds per worker.  Each worker hands over the
\* batches it claimed in the order it claimed them and claims the next one
\* only after the hand-off of the last; every batch handed over was claimed.
C17_ClaimOrderPerWorker ==
    /\ \A w \in Workers :
          /\ Len(HandedBy(w)) <= Len(ClaimsOf(w))
          /\ Len(ClaimsOf(w)) <= Len(HandedBy(w)) + 1
          /\ HandedBy(w) = SubSeq(ClaimsOf(w), 1, Len(HandedBy(w)))
    /\ \A p \in 1..Len(handed) : \E i \in 1..Len(claimed) : claimed[i] = handed[p]

\* C17 witness: one worker claimed two batches, one after the other, and
\* handed both over.
C17_Witness ==
    \E w \in Workers :
        /\ Len(ClaimsOf(w)) = 2
        /\ Len(HandedBy(w)) = 2
        /\ ClaimsOf(w)[1] # ClaimsOf(w)[2]

\* C18: in-flight ingestion is bounded by a constant that does not depend on
\* the number of submissions.  The forwarding tasks pending on
\* Producer.Watcher never hold every item submitted so far, once more than
\* one was submitted: the ingestion loop waits for a hand-off before it takes
\* more.
C18_InFlightBounded == submitted > 1 => Cardinality(fwd) < submitted
====
